---- MODULE Spec2Model ----
(***************************************************************************)
(* CoreReactiveEngine (packages/core/src/engine.ts) with the debounce and  *)
(* throttle wrappers of packages/core/src/utils.ts, on a single-threaded   *)
(* event loop: a call runs to its first await, the continuations of        *)
(* processAction and the timer callbacks run as later steps.               *)
(***************************************************************************)
EXTENDS Integers, Sequences, FiniteSets, TLC

\* ---------------------------------------------------------------- bounds
MaxState == 1
MaxUpdates == 3
MaxWrappedUpdates == 2
MaxLifeUpdates == 1
MaxCalls == 3
MaxWrappers == 2
MaxLoopUpdates == 4
MaxActionUpdates == 2
MaxActionCalls == 2
MaxReAdds == 1

\* ---------------------------------------------------------------- values
Null == -1
States == 0 .. MaxState
Ids == {"a", "b"}

\* JavaScript `!oldState`: null is falsy, and so is the number 0
Falsy(s) == s = Null \/ s = 0

NoConfig == [present |-> FALSE, onError |-> "none", providers |-> "none"]

VARIABLES
  config,            \* this.config (present = not null)
  currentState,      \* this.currentState
  previousState,     \* this.previousState
  actions,           \* this.actions, a Map in insertion order
  executingActions,  \* this.executingActions
  isDestroyed,       \* this.isDestroyed
  inThrottle,        \* the inThrottle flag of every throttle closure
  timers,            \* pending setTimeout callbacks
  nextW,             \* next wrapper closure to be created by addAction
  now,               \* Date.now()
  running,           \* runs of a user's execute that have not settled
  micro,             \* processAction calls suspended on `await undefined`
  upd,               \* one record per effective updateState call
  mgmt,              \* number of configure, addAction, removeAction, destroy calls
  lastCall,          \* the last call made on the engine and how it ended
  isExecuting        \* the isExecuting state of the useReactiveAI hook

vars == <<config, currentState, previousState, actions, executingActions,
          isDestroyed, inThrottle, timers, nextW, now, running, micro, upd,
          mgmt, lastCall, isExecuting>>

engine == <<config, currentState, previousState, actions, executingActions,
            isDestroyed>>

\* ------------------------------------------------------ user callbacks
\* trigger(previousState, currentState, {timestamp})
\* ("toggles": a trigger that registers or removes another action, see
\* Callback, and returns true)
Trigger(kind, p, c) ==
  CASE kind = "changed" -> p # c
    [] kind = "always"  -> TRUE
    [] kind = "toggles" -> TRUE
    [] OTHER            -> FALSE

\* condition(context); the conditions used here read context.state only
Condition(kind, state) ==
  CASE kind = "odd" -> state % 2 = 1
    [] OTHER        -> TRUE

\* an every that does not call the conditions
EveryUnchecked(conds, state) == TRUE

\* action.conditions.every(condition => condition(context))
Every(conds, state) == \A i \in 1 .. Len(conds) : Condition(conds[i], state)

\* ------------------------------------------------------------- the Map
HasId(acts, id) == \E i \in 1 .. Len(acts) : acts[i].id = id

IndexOf(acts, id) == CHOOSE i \in 1 .. Len(acts) : acts[i].id = id

\* a Map.set that leaves the entry of an existing key as it is
MapSetIfAbsent(acts, e) ==
  IF HasId(acts, e.id) THEN acts ELSE Append(acts, e)

\* Map.set: an existing key keeps its position
MapSet(acts, e) ==
  IF HasId(acts, e.id) THEN [acts EXCEPT ![IndexOf(acts, e.id)] = e]
  ELSE Append(acts, e)

\* a delete that removes the entry of the key and every entry after it
MapDeleteFrom(acts, id) ==
  IF HasId(acts, id) THEN SubSeq(acts, 1, IndexOf(acts, id) - 1) ELSE acts

\* Map.delete
MapDelete(acts, id) == SelectSeq(acts, LAMBDA e : e.id # id)

MapIds(acts) == {acts[i].id : i \in 1 .. Len(acts)}

Range(acts) == {acts[i] : i \in 1 .. Len(acts)}

\* ------------------------------------------------------------ addAction
Wrapped(a) == a.debounce > 0 \/ a.throttle > 0

\* wrapActionWithControls: debounce and throttle each create one closure per
\* call; w names the closures of this registration (0: execute left as is)
wrapActionWithControls(a, w) ==
  [id |-> a.id, trigger |-> a.trigger, conditions |-> a.conditions,
   preventDefault |-> a.preventDefault, debounce |-> a.debounce,
   throttle |-> a.throttle, execute |-> a.execute,
   w |-> IF Wrapped(a) THEN w ELSE 0]

\* addAction on the pair (actions, nextW)
addAction(reg, a) ==
  [actions |-> MapSet(reg.actions, wrapActionWithControls(a, reg.nextW)),
   nextW   |-> IF Wrapped(a) THEN reg.nextW + 1 ELSE reg.nextW]

\* the action that a "toggles" trigger adds and removes
Toggled ==
  [id |-> "b", trigger |-> "always", conditions |-> <<>>,
   preventDefault |-> FALSE, debounce |-> 0, throttle |-> 0,
   execute |-> "async"]

\* the calls a trigger makes on the engine while it is evaluated: "toggles"
\* does engine.removeAction('b') when b is registered and
\* engine.addAction(Toggled) when it is not
Callback(reg, kind) ==
  IF kind # "toggles" THEN reg
  ELSE IF HasId(reg.actions, Toggled.id)
  THEN [reg EXCEPT !.actions = MapDelete(@, Toggled.id)]
  ELSE addAction(reg, Toggled)

RECURSIVE Registry(_, _, _)
\* the action map after the triggers of the processed list have been called
\* (processAction calls no trigger when the old state is falsy)
Registry(reg, list, oldState) ==
  IF list = <<>> \/ Falsy(oldState) THEN reg
  ELSE Registry(Callback(reg, Head(list).trigger), Tail(list), oldState)

\* a loop over the live map, which sees what the callbacks added and removed
LiveValues(snapshot, live) == live

\* Array.from(this.actions.values()): the list is built before the first
\* processAction call
ArrayFrom(snapshot, live) == snapshot

RECURSIVE addAll(_, _)
\* config.actions.forEach(action => this.addAction(action))
addAll(reg, list) ==
  IF list = <<>> THEN reg
  ELSE addAll(addAction(reg, Head(list)), Tail(list))

\* ------------------------------------------------- the update records
\* upd[u] keeps what the u-th effective updateState call did:
\*   old, new, timestamp : the snapshot of the call
\*   by, byId : the run (update, action id) whose execute made the call, or
\*              0 and "" for a call of the client
\*   acts     : Array.from(this.actions.values()) at the call
\*   trig     : ids whose trigger was evaluated for this update
\*   evals    : the same ids, in the order of the evaluations
\*   calls    : ids whose action.execute (wrapped or not) was invoked, in order
\*   blocked  : ids stopped by the preventDefault guard
\*   cond     : ids whose conditions were evaluated for this update
\*   started  : ids whose user execute has begun to run with this context
\*   ran      : per id, the time at which that run began (Null: no run)
\*   seen     : per id, the context its conditions were called with
\*   ctx      : per id, the context the user's execute was called with
\*   failed   : ids whose user execute threw or rejected
\*   errs     : number of onError invocations per id
\*   task     : state of the promise of processAction per id
\*   status   : state of the promise returned by updateState
NoErrs == [i \in Ids |-> 0]

NoTasks == [i \in Ids |-> "none"]

NoRuns == [i \in Ids |-> Null]

\* no context
NoCtx ==
  [state |-> Null, providers |-> "none", trigger |-> "", timestamp |-> Null,
   previousState |-> Null]

NoCtxs == [i \in Ids |-> NoCtx]

\* a context built with the two states exchanged
ContextSwapped(id, oldState, newState, timestamp, cfg) ==
  [state |-> oldState, providers |-> cfg.providers, trigger |-> id,
   timestamp |-> timestamp, previousState |-> newState]

\* const context = { state: newState, providers: this.config.providers,
\*   metadata: { trigger: actionId, timestamp, previousState: oldState } }
Context(id, oldState, newState, timestamp, cfg) ==
  [state |-> newState, providers |-> cfg.providers, trigger |-> id,
   timestamp |-> timestamp, previousState |-> oldState]

Count(seq, x) == Cardinality({i \in 1 .. Len(seq) : seq[i] = x})

\* Promise.all in the place of Promise.allSettled: one rejection rejects
promiseAll(task) ==
  IF \E i \in Ids : task[i] = "rejected" THEN "rejected"
  ELSE IF \E i \in Ids : task[i] = "pending" THEN "pending" ELSE "fulfilled"

\* Promise.allSettled(actionPromises): settles when none is pending and is
\* fulfilled whatever the outcomes
allSettled(task) ==
  IF \E i \in Ids : task[i] = "pending" THEN "pending" ELSE "fulfilled"

Resolve(u) == [u EXCEPT !.status = allSettled(u.task)]

\* ------------------------------------------------------- processAction
\* st = [executing, running, micro, timers, inThrottle, u]: the state the
\* synchronous part of one updateState call works on

\* a finally that settles the promise and leaves the id in the tracker
FinallyKeepsId(st, id, res) == [st EXCEPT !.u.task[id] = res]

\* finally { this.executingActions.delete(actionId) }, then the promise of
\* processAction settles with res
Finally(st, id, res) ==
  [st EXCEPT !.executing = @ \ {id}, !.u.task[id] = res]

\* a catch block that calls a handler whatever this.config is
CatchAnyConfig(st, id, cfg) ==
  Finally([st EXCEPT !.u.errs[id] = @ + 1], id, "fulfilled")

\* a catch block that reports the failure to onError twice
CatchTwice(st, id, cfg) ==
  IF ~cfg.present THEN Finally(st, id, "rejected")
  ELSE IF cfg.onError = "none" THEN Finally(st, id, "fulfilled")
  ELSE Finally([st EXCEPT !.u.errs[id] = @ + 2], id,
               IF cfg.onError = "throws" THEN "rejected" ELSE "fulfilled")

\* catch (error) { ... this.config.onError(error, context) ... }
\* cfg is this.config at the time the catch block runs: reading .onError of a
\* null config throws out of the catch block
Catch(st, id, cfg) ==
  IF ~cfg.present THEN Finally(st, id, "rejected")
  ELSE IF cfg.onError = "none" THEN Finally(st, id, "fulfilled")
  ELSE Finally([st EXCEPT !.u.errs[id] = @ + 1], id,
               IF cfg.onError = "throws" THEN "rejected" ELSE "fulfilled")

\* the user's execute is called: an "async" one returns a pending promise, a
\* "throws" one throws before returning
UserExecute(st, uid, id, kind, awaited, context) ==
  IF kind = "throws"
  THEN [st |-> [st EXCEPT !.u.started = @ \cup {id}, !.u.ran[id] = now,
                          !.u.ctx[id] = context,
                          !.u.failed = @ \cup {id}],
        threw |-> TRUE]
  ELSE [st |-> [st EXCEPT !.u.started = @ \cup {id}, !.u.ran[id] = now,
                          !.u.ctx[id] = context,
                          !.running = @ \cup {[uid |-> uid, id |-> id,
                                               awaited |-> awaited]}],
        threw |-> FALSE]

\* a debounce that sets a new timer without clearing the pending one
debounceNoClear(st, uid, e, context) ==
  [st |-> [st EXCEPT !.timers =
             @ \cup {[kind |-> "debounce", w |-> e.w, due |-> now + e.debounce,
                      uid |-> uid, id |-> e.id, execute |-> e.execute,
                      args |-> context]}],
   threw |-> FALSE]

\* utils.ts debounce: clearTimeout(timeoutId); timeoutId = setTimeout(() =>
\* func(...args), wait)
debounce(st, uid, e, context) ==
  [st |-> [st EXCEPT !.timers =
             {t \in @ : ~(t.kind = "debounce" /\ t.w = e.w)}
             \cup {[kind |-> "debounce", w |-> e.w, due |-> now + e.debounce,
                    uid |-> uid, id |-> e.id, execute |-> e.execute,
                    args |-> context]}],
   threw |-> FALSE]

\* the function wrapped by throttle: the debounced execute if there is one
Inner(st, uid, e, context) ==
  IF e.debounce > 0 THEN debounce(st, uid, e, context)
  ELSE UserExecute(st, uid, e.id, e.execute, FALSE, context)

\* a throttle that lets every call through and starts no cooldown
throttleNoCooldown(st, uid, e, context) == Inner(st, uid, e, context)

\* utils.ts throttle: if (!inThrottle) { func(...args); inThrottle = true;
\* setTimeout(() => inThrottle = false, limit) }
throttle(st, uid, e, context) ==
  IF st.inThrottle[e.w] THEN [st |-> st, threw |-> FALSE]
  ELSE LET r == Inner(st, uid, e, context) IN
       IF r.threw THEN r
       ELSE [st |-> [r.st EXCEPT
                       !.inThrottle[e.w] = TRUE,
                       !.timers = @ \cup
                         {[kind |-> "throttle", w |-> e.w,
                           due |-> now + e.throttle, uid |-> 0, id |-> e.id,
                           execute |-> e.execute, args |-> NoCtx]}],
             threw |-> FALSE]

\* action.execute(context) as registered by addAction (throttle outermost)
Execute(st, uid, e, context) ==
  IF e.throttle > 0 THEN throttle(st, uid, e, context)
  ELSE IF e.debounce > 0 THEN debounce(st, uid, e, context)
  ELSE UserExecute(st, uid, e.id, e.execute, TRUE, context)

\* processAction up to its first await
processAction(st, uid, e, oldState, newState) ==
  IF ~config.present \/ Falsy(oldState)
  THEN [st EXCEPT !.u.task[e.id] = "fulfilled"]
  ELSE
    LET t == [st EXCEPT !.u.trig = @ \cup {e.id},
                        !.u.evals = Append(@, e.id)] IN
    IF ~Trigger(e.trigger, oldState, newState) THEN Finally(t, e.id, "fulfilled")
    ELSE
    LET context == Context(e.id, oldState, newState, st.u.timestamp, config)
        k == [t EXCEPT !.u.cond = @ \cup {e.id}, !.u.seen[e.id] = context]
    IN
    IF ~Every(e.conditions, context.state) THEN Finally(k, e.id, "fulfilled")
    ELSE IF e.preventDefault /\ e.id \in k.executing
    THEN Finally([k EXCEPT !.u.blocked = @ \cup {e.id}], e.id, "fulfilled")
    ELSE
      LET c == [k EXCEPT !.executing = @ \cup {e.id},
                         !.u.calls = Append(@, e.id)]
          r == Execute(c, uid, e, context)
      IN  IF r.threw THEN Catch(r.st, e.id, config)
          ELSE IF Wrapped(e)
          THEN [r.st EXCEPT !.micro = @ \cup {[uid |-> uid, id |-> e.id]},
                            !.u.task[e.id] = "pending"]
          ELSE [r.st EXCEPT !.u.task[e.id] = "pending"]

RECURSIVE processLastFirst(_, _, _, _, _)
\* a loop that goes through the actions from the last to the first
processLastFirst(st, uid, acts, oldState, newState) ==
  IF acts = <<>> THEN st
  ELSE processLastFirst(
         processAction(st, uid, acts[Len(acts)], oldState, newState),
         uid, SubSeq(acts, 1, Len(acts) - 1), oldState, newState)

RECURSIVE processAll(_, _, _, _, _)
\* Array.from(this.actions.values()).map(action => this.processAction(...))
processAll(st, uid, acts, oldState, newState) ==
  IF acts = <<>> THEN st
  ELSE processAll(processAction(st, uid, Head(acts), oldState, newState),
                  uid, Tail(acts), oldState, newState)

\* ---------------------------------------------------------------- state
Init ==
  /\ config = NoConfig
  /\ currentState = Null
  /\ previousState = Null
  /\ actions = <<>>
  /\ executingActions = {}
  /\ isDestroyed = FALSE
  /\ inThrottle = [w \in 1 .. MaxWrappers |-> FALSE]
  /\ timers = {}
  /\ nextW = 1
  /\ now = 0
  /\ running = {}
  /\ micro = {}
  /\ upd = <<>>
  /\ mgmt = 0
  /\ lastCall = [op |-> "none", threw |-> FALSE]
  /\ isExecuting = FALSE

Call(op, threw) == lastCall' = [op |-> op, threw |-> threw]

Event == lastCall' = [op |-> "event", threw |-> FALSE]

\* the working state of a step that continues the update u
Work(u) ==
  [executing |-> executingActions, running |-> running, micro |-> micro,
   timers |-> timers, inThrottle |-> inThrottle, u |-> u]

\* write the working state back
Store(st) ==
  /\ executingActions' = st.executing
  /\ running' = st.running
  /\ micro' = st.micro
  /\ timers' = st.timers
  /\ inThrottle' = st.inThrottle

\* ------------------------------------------------------------ operations
\* configure that does not look at the destroyed flag
NeverRefused == FALSE

\* configure: if (this.isDestroyed) throw new Error(...)
CannotConfigure == isDestroyed

\* updateState that checks the destroyed flag only
DestroyedOnly == isDestroyed

\* updateState: if (this.isDestroyed || !this.config) return
Unusable == isDestroyed \/ ~config.present

\* configure(config), config.actions drawn from Lists and config.onError from
\* Handlers: absent ("none"), one that returns, one that throws
Configure(Lists, Handlers) ==
  \E list \in Lists, s \in States, oe \in Handlers :
    IF CannotConfigure
    THEN /\ Call("configure", TRUE)
         /\ UNCHANGED <<engine, inThrottle, timers, nextW, now, running,
                        micro, upd>>
    ELSE LET reg == addAll([actions |-> actions, nextW |-> nextW], list) IN
         /\ reg.nextW <= MaxWrappers + 1
         /\ config' = [present |-> TRUE, onError |-> oe, providers |-> "P"]
         /\ currentState' = s
         /\ actions' = reg.actions
         /\ nextW' = reg.nextW
         /\ Call("configure", FALSE)
         /\ UNCHANGED <<previousState, executingActions, isDestroyed,
                        inThrottle, timers, now, running, micro, upd>>

\* updateState(newState) up to `await Promise.allSettled(actionPromises)`;
\* at most max effective calls are made; the call is made by the client
\* (by = 0) or by the execute of the run (by, byId)
Update(max, by, byId) ==
  \E newState \in States :
    IF Unusable
    THEN /\ Call("updateState", FALSE)
         /\ UNCHANGED <<engine, inThrottle, timers, nextW, now, running,
                        micro, upd>>
    ELSE LET uid == Len(upd) + 1
             oldState == currentState
             reg == Registry([actions |-> actions, nextW |-> nextW], actions,
                             oldState)
             list == ArrayFrom(actions, reg.actions)
             u == [old |-> oldState, new |-> newState, timestamp |-> now,
                   by |-> by, byId |-> byId,
                   acts |-> list, trig |-> {}, evals |-> <<>>, cond |-> {},
                   calls |-> <<>>,
                   blocked |-> {}, started |-> {}, ran |-> NoRuns,
                   seen |-> NoCtxs, ctx |-> NoCtxs,
                   failed |-> {},
                   errs |-> NoErrs, task |-> NoTasks, status |-> "pending"]
             st == processAll(Work(u), uid, list, oldState, newState)
         IN  /\ Len(upd) < max
             /\ actions' = reg.actions
             /\ nextW' = reg.nextW
             /\ previousState' = oldState
             /\ currentState' = newState
             /\ Store(st)
             /\ upd' = Append(upd, Resolve(st.u))
             /\ Call("updateState", FALSE)
             /\ UNCHANGED <<config, isDestroyed, now>>

\* updateState(newState) called by the client
UpdateState(max) == Update(max, 0, "")

\* updateState(newState) called by a user's execute of kind "updates" while it
\* is running, after its first await (an action that modifies the watched
\* state)
SelfUpdate(max) ==
  \E r \in running :
    /\ HasId(upd[r.uid].acts, r.id)
    /\ upd[r.uid].acts[IndexOf(upd[r.uid].acts, r.id)].execute = "updates"
    /\ Update(max, r.uid, r.id)

\* addAction(action)
AddOne(a) ==
    LET reg == addAction([actions |-> actions, nextW |-> nextW], a) IN
    /\ reg.nextW <= MaxWrappers + 1
    /\ actions' = reg.actions
    /\ nextW' = reg.nextW
    /\ Call("addAction", FALSE)
    /\ UNCHANGED <<config, currentState, previousState, executingActions,
                   isDestroyed, inThrottle, timers, now, running, micro, upd>>

\* addAction(action), action drawn from Defs
AddAction(Defs) == \E a \in Defs : AddOne(a)

\* removeAction(actionId)
RemoveOne(id) ==
    /\ actions' = MapDelete(actions, id)
    /\ Call("removeAction", FALSE)
    /\ UNCHANGED <<config, currentState, previousState, executingActions,
                   isDestroyed, inThrottle, timers, nextW, now, running,
                   micro, upd>>

\* removeAction(actionId), any id
RemoveAction == \E id \in Ids : RemoveOne(id)

\* a destroy that does not clear the execution tracker
DestroyKeepsTracker ==
  /\ actions' = <<>>
  /\ executingActions' = executingActions
  /\ config' = NoConfig
  /\ currentState' = Null
  /\ previousState' = Null
  /\ isDestroyed' = TRUE
  /\ Call("destroy", FALSE)
  /\ UNCHANGED <<inThrottle, timers, nextW, now, running, micro, upd>>

\* destroy()
Destroy ==
  /\ actions' = <<>>
  /\ executingActions' = {}
  /\ config' = NoConfig
  /\ currentState' = Null
  /\ previousState' = Null
  /\ isDestroyed' = TRUE
  /\ Call("destroy", FALSE)
  /\ UNCHANGED <<inThrottle, timers, nextW, now, running, micro, upd>>

\* --------------------------------------------------------- continuations
\* the promise of a user's execute is fulfilled; an awaited one resumes
\* processAction after `await action.execute(context)`
SettleOk ==
  \E r \in running :
    LET st0 == [Work(upd[r.uid]) EXCEPT !.running = @ \ {r}]
        st == IF r.awaited THEN Finally(st0, r.id, "fulfilled") ELSE st0
    IN  /\ Store(st)
        /\ upd' = [upd EXCEPT ![r.uid] = Resolve(st.u)]
        /\ Event
        /\ UNCHANGED <<config, currentState, previousState, actions,
                       isDestroyed, nextW, now>>

\* the promise of a user's execute is rejected; an awaited one resumes
\* processAction in its catch block, the rejection of any other is unhandled
SettleFail ==
  \E r \in running :
    LET st0 == [Work(upd[r.uid]) EXCEPT !.running = @ \ {r},
                                        !.u.failed = @ \cup {r.id}]
        st == IF r.awaited THEN Catch(st0, r.id, config) ELSE st0
    IN  /\ Store(st)
        /\ upd' = [upd EXCEPT ![r.uid] = Resolve(st.u)]
        /\ Event
        /\ UNCHANGED <<config, currentState, previousState, actions,
                       isDestroyed, nextW, now>>

\* a continuation that settles the promise and leaves the id in the tracker
ResumeKeepsTracker ==
  \E m \in micro :
    LET st == [Work(upd[m.uid]) EXCEPT !.micro = @ \ {m},
                                      !.u.task[m.id] = "fulfilled"]
    IN  /\ Store(st)
        /\ upd' = [upd EXCEPT ![m.uid] = Resolve(st.u)]
        /\ Event
        /\ UNCHANGED <<config, currentState, previousState, actions,
                       isDestroyed, nextW, now>>

\* processAction resumes after `await` of the undefined that a debounce or
\* throttle wrapper returned
Resume ==
  \E m \in micro :
    LET st == Finally([Work(upd[m.uid]) EXCEPT !.micro = @ \ {m}], m.id,
                      "fulfilled")
    IN  /\ Store(st)
        /\ upd' = [upd EXCEPT ![m.uid] = Resolve(st.u)]
        /\ Event
        /\ UNCHANGED <<config, currentState, previousState, actions,
                       isDestroyed, nextW, now>>

\* the timer set by debounce fires: () => func(...args)
DebounceFire ==
  \E t \in timers :
    /\ t.kind = "debounce"
    /\ t.due <= now
    /\ micro = {}
    /\ LET st0 == [Work(upd[t.uid]) EXCEPT !.timers = @ \ {t}]
           st == UserExecute(st0, t.uid, t.id, t.execute, FALSE, t.args).st
       IN  /\ Store(st)
           /\ upd' = [upd EXCEPT ![t.uid] = st.u]
    /\ Event
    /\ UNCHANGED <<config, currentState, previousState, actions, isDestroyed,
                   nextW, now>>

\* the timer set by throttle fires: () => inThrottle = false
ThrottleExpire ==
  \E t \in timers :
    /\ t.kind = "throttle"
    /\ t.due <= now
    /\ micro = {}
    /\ timers' = timers \ {t}
    /\ inThrottle' = [inThrottle EXCEPT ![t.w] = FALSE]
    /\ Event
    /\ UNCHANGED <<engine, nextW, now, running, micro, upd>>

\* time passes while no timer is due
Tick ==
  /\ timers # {}
  /\ \A t \in timers : t.due > now
  /\ micro = {}
  /\ now' = now + 1
  /\ Event
  /\ UNCHANGED <<engine, inThrottle, timers, nextW, running, micro, upd>>

\* ------------------------------------------------------ the actions used
Act(id, trigger, conditions, preventDefault, debounceMs, throttleMs, execute) ==
  [id |-> id, trigger |-> trigger, conditions |-> conditions,
   preventDefault |-> preventDefault, debounce |-> debounceMs,
   throttle |-> throttleMs, execute |-> execute]

\* actions without debounce and throttle
PlainDefs ==
  {Act("a", "always", <<>>, TRUE, 0, 0, "async"),
   Act("a", "changed", <<"odd">>, FALSE, 0, 0, "async"),
   Act("b", "changed", <<>>, FALSE, 0, 0, "throws"),
   Act("b", "always", <<"odd">>, TRUE, 0, 0, "async")}

PlainLists ==
  {<<>>} \cup {<<x>> : x \in PlainDefs}
  \cup {<<x, y>> : x, y \in PlainDefs}

LifeDefs ==
  {Act("a", "always", <<>>, TRUE, 0, 0, "async"),
   Act("b", "changed", <<>>, FALSE, 0, 0, "throws")}

LifeLists ==
  {<<>>, <<Act("a", "always", <<>>, TRUE, 0, 0, "async")>>,
   <<Act("a", "always", <<>>, TRUE, 0, 0, "async"),
     Act("b", "changed", <<>>, FALSE, 0, 0, "throws")>>}

\* a client that configures the engine once and then only updates the state
NextUpdates ==
  \/ (~config.present /\ Configure(PlainLists, {"none", "returns", "throws"}) /\ UNCHANGED <<mgmt, isExecuting>>)
  \/ (UpdateState(MaxUpdates) /\ UNCHANGED <<mgmt, isExecuting>>)
  \/ (SettleOk /\ UNCHANGED <<mgmt, isExecuting>>)
  \/ (SettleFail /\ UNCHANGED <<mgmt, isExecuting>>)

SpecUpdates == Init /\ [][NextUpdates]_vars

\* actions with a debounce, a throttle or both
WrappedDefs ==
  {Act("a", "always", <<>>, TRUE, 2, 0, "async"),
   Act("a", "changed", <<>>, FALSE, 1, 2, "throws"),
   Act("b", "always", <<>>, TRUE, 0, 2, "async"),
   Act("b", "changed", <<"odd">>, FALSE, 0, 1, "throws")}

WrappedLists ==
  {<<x>> : x \in WrappedDefs}
  \cup {<<x, y>> : x \in {d \in WrappedDefs : d.id = "a"},
                   y \in {d \in WrappedDefs : d.id = "b"}}

\* a client that configures the engine once, with debounced and throttled
\* actions, and then only updates the state
NextWrapped ==
  \/ (~config.present /\ Configure(WrappedLists, {"none", "returns"})
        /\ UNCHANGED <<mgmt, isExecuting>>)
  \/ (UpdateState(MaxWrappedUpdates) /\ UNCHANGED <<mgmt, isExecuting>>)
  \/ (SettleOk /\ UNCHANGED <<mgmt, isExecuting>>)
  \/ (SettleFail /\ UNCHANGED <<mgmt, isExecuting>>)
  \/ (Resume /\ UNCHANGED <<mgmt, isExecuting>>)
  \/ (DebounceFire /\ UNCHANGED <<mgmt, isExecuting>>)
  \/ (ThrottleExpire /\ UNCHANGED <<mgmt, isExecuting>>)
  \/ (Tick /\ UNCHANGED <<mgmt, isExecuting>>)

SpecWrapped == Init /\ [][NextWrapped]_vars

\* one action that always triggers: debounced, throttled (with an execute
\* that returns a promise, and with one that throws), or both
TimerDefs ==
  {Act("a", "always", <<>>, FALSE, 2, 0, "async"),
   Act("b", "always", <<>>, FALSE, 0, 2, "async"),
   Act("b", "always", <<>>, FALSE, 0, 2, "throws"),
   Act("a", "always", <<>>, FALSE, 1, 3, "async"),
   Act("b", "always", <<>>, FALSE, 1, 3, "throws")}

TimerLists == {<<x>> : x \in TimerDefs}

\* a client that configures the engine once with one rate-limited action and
\* then updates the state at any times
NextTimers ==
  \/ (~config.present /\ Configure(TimerLists, {"returns"}) /\ UNCHANGED <<mgmt, isExecuting>>)
  \/ (UpdateState(MaxUpdates) /\ UNCHANGED <<mgmt, isExecuting>>)
  \/ (SettleOk /\ UNCHANGED <<mgmt, isExecuting>>)
  \/ (SettleFail /\ UNCHANGED <<mgmt, isExecuting>>)
  \/ (Resume /\ UNCHANGED <<mgmt, isExecuting>>)
  \/ (DebounceFire /\ UNCHANGED <<mgmt, isExecuting>>)
  \/ (ThrottleExpire /\ UNCHANGED <<mgmt, isExecuting>>)
  \/ (Tick /\ UNCHANGED <<mgmt, isExecuting>>)

SpecTimers == Init /\ [][NextTimers]_vars

\* an action with preventDefault whose execute calls updateState with states
\* that satisfy its own trigger, alone or next to a second action
LoopDefs ==
  {Act("a", "always", <<>>, TRUE, 0, 0, "updates"),
   Act("b", "changed", <<>>, FALSE, 0, 0, "async")}

LoopLists ==
  {<<Act("a", "always", <<>>, TRUE, 0, 0, "updates")>>,
   <<Act("a", "always", <<>>, TRUE, 0, 0, "updates"),
     Act("b", "changed", <<>>, FALSE, 0, 0, "async")>>}

\* a client that configures the engine once and calls updateState once; every
\* other updateState call is made by the running execute
NextLoop ==
  \/ (~config.present /\ Configure(LoopLists, {"none", "returns"})
        /\ UNCHANGED <<mgmt, isExecuting>>)
  \/ (upd = <<>> /\ UpdateState(MaxLoopUpdates) /\ UNCHANGED <<mgmt, isExecuting>>)
  \/ (SelfUpdate(MaxLoopUpdates) /\ UNCHANGED <<mgmt, isExecuting>>)
  \/ (SettleOk /\ UNCHANGED <<mgmt, isExecuting>>)
  \/ (SettleFail /\ UNCHANGED <<mgmt, isExecuting>>)

SpecLoop == Init /\ [][NextLoop]_vars

\* a debounced, a plain and a throttled action
TeardownDefs ==
  {Act("a", "always", <<>>, FALSE, 2, 0, "async"),
   Act("b", "always", <<>>, FALSE, 0, 0, "async"),
   Act("b", "always", <<>>, FALSE, 0, 2, "async")}

TeardownLists ==
  {<<x>> : x \in TeardownDefs}
  \cup {<<Act("a", "always", <<>>, FALSE, 2, 0, "async"),
          Act("b", "always", <<>>, FALSE, 0, 0, "async")>>}

\* a client that configures the engine with onError, updates the state and
\* destroys the engine at any time, and goes on calling it afterwards
NextTeardown ==
  \/ (~config.present /\ Configure(TeardownLists, {"returns"})
        /\ UNCHANGED <<mgmt, isExecuting>>)
  \/ (UpdateState(MaxLifeUpdates) /\ UNCHANGED <<mgmt, isExecuting>>)
  \/ (config.present /\ Destroy /\ UNCHANGED <<mgmt, isExecuting>>)
  \/ (SettleOk /\ UNCHANGED <<mgmt, isExecuting>>)
  \/ (SettleFail /\ UNCHANGED <<mgmt, isExecuting>>)
  \/ (Resume /\ UNCHANGED <<mgmt, isExecuting>>)
  \/ (DebounceFire /\ UNCHANGED <<mgmt, isExecuting>>)
  \/ (ThrottleExpire /\ UNCHANGED <<mgmt, isExecuting>>)
  \/ (Tick /\ UNCHANGED <<mgmt, isExecuting>>)

SpecTeardown == Init /\ [][NextTeardown]_vars

\* an action whose trigger adds or removes the action b, alone, before b and
\* after b
CallbackLists ==
  {<<Act("a", "toggles", <<>>, FALSE, 0, 0, "async")>>,
   <<Act("a", "toggles", <<>>, FALSE, 0, 0, "throws"),
     Act("b", "changed", <<>>, FALSE, 0, 0, "async")>>,
   <<Act("b", "always", <<>>, TRUE, 0, 0, "async"),
     Act("a", "toggles", <<>>, FALSE, 0, 0, "throws")>>}

\* a client whose callbacks change the action map while an update is processed
NextCallbacks ==
  \/ (~config.present /\ Configure(CallbackLists, {"none", "returns"})
        /\ UNCHANGED <<mgmt, isExecuting>>)
  \/ (UpdateState(MaxActionUpdates) /\ UNCHANGED <<mgmt, isExecuting>>)
  \/ (SettleOk /\ UNCHANGED <<mgmt, isExecuting>>)
  \/ (SettleFail /\ UNCHANGED <<mgmt, isExecuting>>)

SpecCallbacks == Init /\ [][NextCallbacks]_vars

\* a debounced action, an action without debounce for the same id and a
\* second action
MixedDefs ==
  {Act("a", "changed", <<>>, FALSE, 1, 0, "async"),
   Act("a", "always", <<>>, FALSE, 0, 0, "async"),
   Act("b", "always", <<>>, FALSE, 0, 0, "throws")}

MixedLists ==
  {<<Act("a", "changed", <<>>, FALSE, 1, 0, "async"),
     Act("b", "always", <<>>, FALSE, 0, 0, "throws")>>,
   <<Act("a", "always", <<>>, FALSE, 0, 0, "async"),
     Act("b", "always", <<>>, FALSE, 0, 0, "throws")>>}

\* a client that configures the engine once, updates the state at any times
\* and adds actions again (at most MaxReAdds times)
NextMixed ==
  \/ (~config.present /\ Configure(MixedLists, {"returns"}) /\ UNCHANGED <<mgmt, isExecuting>>)
  \/ (UpdateState(MaxActionUpdates) /\ UNCHANGED <<mgmt, isExecuting>>)
  \/ (mgmt < MaxReAdds /\ mgmt' = mgmt + 1 /\ AddAction(MixedDefs)
        /\ UNCHANGED isExecuting)
  \/ (SettleOk /\ UNCHANGED <<mgmt, isExecuting>>)
  \/ (SettleFail /\ UNCHANGED <<mgmt, isExecuting>>)
  \/ (Resume /\ UNCHANGED <<mgmt, isExecuting>>)
  \/ (DebounceFire /\ UNCHANGED <<mgmt, isExecuting>>)
  \/ (Tick /\ UNCHANGED <<mgmt, isExecuting>>)

SpecMixed == Init /\ [][NextMixed]_vars

\* the client makes at most MaxCalls calls that are not updateState
Budget == mgmt < MaxCalls /\ mgmt' = mgmt + 1 /\ UNCHANGED isExecuting

\* two actions for one id and one for another
ActionDefs ==
  {Act("a", "always", <<>>, TRUE, 0, 0, "async"),
   Act("a", "always", <<>>, FALSE, 0, 0, "throws"),
   Act("b", "changed", <<>>, FALSE, 0, 0, "throws")}

ActionLists ==
  {<<>>,
   <<Act("a", "always", <<>>, TRUE, 0, 0, "async"),
     Act("b", "changed", <<>>, FALSE, 0, 0, "throws")>>}

\* a client that configures the engine once, then adds and removes actions
\* (at most MaxActionCalls times) between its updates
NextActions ==
  \/ (~config.present /\ Configure(ActionLists, {"returns"}) /\ UNCHANGED <<mgmt, isExecuting>>)
  \/ (UpdateState(MaxActionUpdates) /\ UNCHANGED <<mgmt, isExecuting>>)
  \/ (mgmt < MaxActionCalls /\ mgmt' = mgmt + 1 /\ AddAction(ActionDefs)
        /\ UNCHANGED isExecuting)
  \/ (mgmt < MaxActionCalls /\ mgmt' = mgmt + 1 /\ RemoveAction
        /\ UNCHANGED isExecuting)
  \/ (SettleOk /\ UNCHANGED <<mgmt, isExecuting>>)
  \/ (SettleFail /\ UNCHANGED <<mgmt, isExecuting>>)

SpecActions == Init /\ [][NextActions]_vars

\* a client that uses the whole interface
Next ==
  \/ (Budget /\ Configure(LifeLists, {"none", "returns"}))
  \/ (UpdateState(MaxLifeUpdates) /\ UNCHANGED <<mgmt, isExecuting>>)
  \/ (Budget /\ AddAction(LifeDefs))
  \/ (Budget /\ RemoveAction)
  \/ (Budget /\ Destroy)
  \/ (SettleOk /\ UNCHANGED <<mgmt, isExecuting>>)
  \/ (SettleFail /\ UNCHANGED <<mgmt, isExecuting>>)

Spec == Init /\ [][Next]_vars

\* ------------------------------------------------ the useReactiveAI hook
\* setIsExecuting(value) of the hook's useState
setIsExecuting(value) == isExecuting' = value

\* the actions of a component: the hook replaces every execute by an async
\* function that awaits the user's, so the engine sees promises only
HookLists ==
  {<<Act("a", "always", <<>>, FALSE, 0, 0, "async"),
     Act("b", "always", <<>>, FALSE, 0, 0, "async")>>,
   <<Act("a", "changed", <<>>, FALSE, 0, 0, "async"),
     Act("b", "always", <<"odd">>, FALSE, 0, 0, "async")>>}

\* the initialising effect: a new engine configured with the wrapped actions
\* and the hook's own onError
HookConfigure ==
  /\ ~config.present
  /\ Configure(HookLists, {"returns"})
  /\ UNCHANGED <<mgmt, isExecuting>>

\* the watch effect: updateState when the watched values have changed; every
\* wrapped execute the engine starts begins with setIsExecuting(true)
HookUpdateState ==
  /\ config.present
  /\ UpdateState(MaxUpdates)
  /\ currentState' # currentState
  /\ IF Len(upd') > Len(upd) /\ upd'[Len(upd')].started # {}
     THEN setIsExecuting(TRUE)
     ELSE UNCHANGED isExecuting
  /\ UNCHANGED mgmt

\* the user's execute is fulfilled: setLastError(null), then the finally block
HookSettleOk == SettleOk /\ setIsExecuting(FALSE) /\ UNCHANGED mgmt

\* the user's execute is rejected: setLastError(error), rethrow, then the
\* finally block
HookSettleFail == SettleFail /\ setIsExecuting(FALSE) /\ UNCHANGED mgmt

NextHook ==
  \/ HookConfigure
  \/ HookUpdateState
  \/ HookSettleOk
  \/ HookSettleFail

SpecHook == Init /\ [][NextHook]_vars

\* --------------------------------------------------------------- claims
Updates == 1 .. Len(upd)

Acts(u) == {upd[u].acts[i] : i \in 1 .. Len(upd[u].acts)}

\* the registered action whose execute the run r belongs to
ActOf(r) == upd[r.uid].acts[IndexOf(upd[r.uid].acts, r.id)]

\* trigger and conditions of e, applied to the snapshot of update u
Passes(u, e) ==
  Trigger(e.trigger, upd[u].old, upd[u].new) /\ Every(e.conditions, upd[u].new)

RECURSIVE SumErrs(_)
SumErrs(n) ==
  IF n = 0 THEN 0
  ELSE SumErrs(n - 1)
       + Cardinality({<<i, k>> \in Ids \X (1 .. 2) : upd[n].errs[i] >= k})

RECURSIVE SumFailed(_)
SumFailed(n) ==
  IF n = 0 THEN 0 ELSE SumFailed(n - 1) + Cardinality(upd[n].failed)

\* C1: of an action with preventDefault = true and no debounce or throttle, at
\* most one run of execute is in progress at any time.
C1_OneExecutionAtATime ==
  \A r1, r2 \in running :
    (/\ r1.id = r2.id
     /\ r1.awaited /\ r2.awaited
     /\ ActOf(r1).preventDefault /\ ActOf(r2).preventDefault) => r1 = r2

\* C2: in an update in which some action's execute threw or rejected, every
\* action registered at the call had its trigger evaluated and, when trigger and
\* conditions passed and the guard did not stop it, its execute invoked; and the
\* promise of updateState is never rejected, and is fulfilled once no
\* processAction is pending.
C2_FailureIsolated ==
  \A u \in Updates :
    /\ upd[u].status # "rejected"
    /\ (\A i \in Ids : upd[u].task[i] # "pending") => upd[u].status = "fulfilled"
    /\ upd[u].failed # {} =>
         \A e \in Acts(u) :
           /\ e.id \in upd[u].trig
           /\ (Passes(u, e) /\ e.id \notin upd[u].blocked)
                => Count(upd[u].calls, e.id) = 1

\* an update in which the first action threw, onError threw too, and the second
\* action was executed all the same; the promise of updateState is fulfilled
C2_Witness ==
  \E u \in Updates :
    /\ Len(upd[u].acts) = 2
    /\ upd[u].acts[1].id \in upd[u].failed
    /\ upd[u].task[upd[u].acts[1].id] = "rejected"
    /\ upd[u].acts[2].id \in upd[u].started
    /\ upd[u].status = "fulfilled"

\* C3: on an engine configured with onError, the number of onError invocations
\* equals the number of (action, update) pairs whose execute threw or rejected.
C3_OnErrorCountsFailures ==
  (config.present /\ config.onError # "none")
    => SumErrs(Len(upd)) = SumFailed(Len(upd))

\* C4: each updateState call invokes execute exactly once for every registered
\* action whose trigger and conditions return true on the call's transition and
\* which the re-entry guard does not stop, and never for another action.
C4_ExecutedExactlyOnce ==
  \A u \in Updates : \A e \in Acts(u) :
    Count(upd[u].calls, e.id) =
      IF Passes(u, e) /\ e.id \notin upd[u].blocked THEN 1 ELSE 0

\* C5: the promise of updateState is fulfilled only when, for every action the
\* update triggered, the user's execute has run and has settled.
C5_ResolvesAfterExecutions ==
  \A u \in Updates :
    upd[u].status = "fulfilled" =>
      \A id \in Ids :
        Count(upd[u].calls, id) > 0 =>
          /\ id \in upd[u].started
          /\ \A r \in running : ~(r.uid = u /\ r.id = id)

\* C6: the first updateState after configure with a non-null state s0 evaluates
\* every action's trigger with (s0, s1) and executes those that pass.
C6_FirstUpdateProcessed ==
  (Len(upd) >= 1 /\ upd[1].old # Null) =>
    \A e \in Acts(1) :
      /\ e.id \in upd[1].trig
      /\ Passes(1, e) => Count(upd[1].calls, e.id) = 1

\* C7: an updateState(s) made while the current state is s is processed as a
\* transition: every trigger is evaluated with (s, s) and the action executed
\* when trigger and conditions return true (and the guard does not stop it).
C7_NoDeduplication ==
  \A u \in Updates :
    upd[u].old = upd[u].new =>
      \A e \in Acts(u) :
        /\ e.id \in upd[u].trig
        /\ (Passes(u, e) /\ e.id \notin upd[u].blocked)
             => Count(upd[u].calls, e.id) = 1

\* C8: a configure call on a destroyed engine throws and changes nothing.
C8_ConfigureAfterDestroy ==
  [][(isDestroyed /\ lastCall'.op = "configure")
       => (lastCall'.threw /\ UNCHANGED <<engine, upd, running, timers>>)]_vars

\* a configure call has been refused on an engine that had been configured
\* and had processed an update before it was destroyed
C8_Witness ==
  /\ isDestroyed
  /\ lastCall = [op |-> "configure", threw |-> TRUE]
  /\ Len(upd) >= 1

\* C9: updateState on a destroyed or never configured engine does not throw,
\* changes no field of the engine and evaluates and runs nothing.
C9_UpdateIsNoOp ==
  [][((isDestroyed \/ ~config.present) /\ lastCall'.op = "updateState")
       => (~lastCall'.threw
           /\ UNCHANGED <<engine, upd, running, micro, timers, inThrottle>>)]_vars

\* updateState has been called on a destroyed engine that had processed an
\* update before
C9_Witness ==
  /\ isDestroyed
  /\ lastCall = [op |-> "updateState", threw |-> FALSE]
  /\ Len(upd) >= 1

\* C10: while a run of execute (no debounce, no throttle) is in progress, the
\* id of its action is in the execution tracker.
C10_RunningIsTracked ==
  \A r \in running : r.awaited => r.id \in executingActions

\* C11: for each updateState call and each action, onError is invoked at most
\* once, whatever the interleaving with other actions and other updates.
C11_OnErrorAtMostOnce ==
  \A u \in Updates : \A id \in Ids : upd[u].errs[id] <= 1

\* two updates of the same action have both failed, together with a second
\* action that failed in the later one, and each failure was reported once
C11_Witness ==
  \E u, v \in Updates : \E id, other \in Ids :
    /\ u < v /\ id # other
    /\ upd[u].errs[id] = 1 /\ upd[v].errs[id] = 1
    /\ upd[v].errs[other] = 1

\* the wrapped execute of id was invoked for update u
Called(u, id) == Count(upd[u].calls, id) > 0

\* a later update than u invoked the execute wrapped by the same closures as
\* e, at a time that satisfies Rel(difference to the time of u)
LaterCall(u, e, Rel(_)) ==
  \E v \in Updates :
    /\ v > u
    /\ \E f \in Acts(v) : f.w = e.w /\ Called(v, f.id)
    /\ Rel(upd[v].timestamp - upd[u].timestamp)

PendingFor(u, e) ==
  {t \in timers : t.kind = "debounce" /\ t.w = e.w /\ t.uid = u}

\* C12: debounce(fn, d): each invocation cancels the pending timer and starts
\* a new one; of a burst of calls less than d apart only the last one runs fn,
\* once, d after that call and with that call's arguments.
C12_DebounceRunsLastOfBurst ==
  \A u \in Updates : \A e \in Acts(u) :
    (e.debounce > 0 /\ e.throttle = 0 /\ Called(u, e.id)) =>
      LET due == upd[u].timestamp + e.debounce
          ran == e.id \in upd[u].started
      IN  /\ Cardinality({t \in timers : t.kind = "debounce" /\ t.w = e.w}) <= 1
          /\ \A t \in PendingFor(u, e) : t.due = due /\ now <= due
          /\ ran => (upd[u].ran[e.id] = due /\ PendingFor(u, e) = {})
          /\ LaterCall(u, e, LAMBDA d : d < e.debounce)
               => (~ran /\ PendingFor(u, e) = {})
          /\ ~LaterCall(u, e, LAMBDA d : d <= e.debounce)
               => (ran \/ PendingFor(u, e) # {})

\* three calls one time unit apart with d = 2: only the third has run
C12_Witness ==
  /\ Len(upd) = 3
  /\ \A u \in Updates : \E e \in Acts(u) :
       /\ e.debounce = 2 /\ e.throttle = 0 /\ Called(u, e.id)
       /\ upd[u].timestamp = u - 1
       /\ (e.id \in upd[u].started) = (u = 3)
  /\ now = 4

\* the updates in which a user's execute wrapped by the closures of e has run
RunsOf(e) ==
  {u \in Updates : e.id \in upd[u].started /\ \E f \in Acts(u) : f = e}

\* C13: throttle(fn, l): a call that is let through runs fn at once, and two
\* runs of fn are at least l apart (calls during the cooldown are dropped).
C13_ThrottleSpacing ==
  \A u \in Updates : \A e \in Acts(u) :
    (e.throttle > 0 /\ e.debounce = 0) =>
      /\ e.id \in upd[u].started => upd[u].ran[e.id] = upd[u].timestamp
      /\ \A v \in RunsOf(e) :
           (u \in RunsOf(e) /\ u < v)
             => upd[v].ran[e.id] - upd[u].ran[e.id] >= e.throttle

\* C14: an action with preventDefault = true whose execute calls updateState,
\* any number of times, with states that satisfy its own trigger is not executed
\* again by such a call: the call is made while the action is running.
C14_NoReExecutionWhileRunning ==
  \A u \in Updates : upd[u].by # 0 => ~Called(u, upd[u].byId)

\* the positions of the entries of acts that have the id
Held(acts, id) == {i \in 1 .. Len(acts) : acts[i].id = id}

\* the entry holds the definition a
Holds(entry, a) ==
  /\ entry.id = a.id
  /\ entry.trigger = a.trigger
  /\ entry.conditions = a.conditions
  /\ entry.preventDefault = a.preventDefault
  /\ entry.debounce = a.debounce
  /\ entry.throttle = a.throttle
  /\ entry.execute = a.execute

\* C15: the action set, and the snapshot every update works on, holds at most
\* one action per id; after addAction(a) the one entry with the id of a holds a,
\* whatever was registered under that id before, and the other entries are as
\* they were.
C15_IdsUniqueLastAddWins ==
  /\ [](/\ \A id \in Ids : Cardinality(Held(actions, id)) <= 1
        /\ \A u \in Updates : \A id \in Ids :
             /\ Cardinality(Held(upd[u].acts, id)) <= 1
             /\ Count(upd[u].calls, id) <= 1)
  /\ [][\A a \in ActionDefs :
          AddOne(a) =>
            /\ Cardinality(Held(actions', a.id)) = 1
            /\ \A i \in Held(actions', a.id) : Holds(actions'[i], a)
            /\ \A i \in 1 .. Len(actions) :
                 actions[i].id # a.id =>
                   \E j \in 1 .. Len(actions') : actions'[j] = actions[i]]_vars

\* an id was registered with one action at an update, then added again with
\* another action, and the next update ran the execute of the second only
C15_Witness ==
  \E u, v \in Updates : \E id \in Ids :
    /\ v = u + 1
    /\ \E i \in Held(upd[u].acts, id), j \in Held(upd[v].acts, id) :
         /\ upd[u].acts[i].execute = "async"
         /\ upd[v].acts[j].execute = "throws"
    /\ Len(upd[u].acts) = 2 /\ Len(upd[v].acts) = 2
    /\ upd[u].acts[2] = upd[v].acts[2]
    /\ id \in upd[u].started
    /\ id \in upd[v].failed /\ upd[v].errs[id] = 1
    /\ \E r \in running : r.uid = u /\ r.id = id

\* C16: removeAction(id) does not throw; with an id that is not registered it
\* changes nothing of the engine; with a registered id it removes the entry of
\* that id and leaves every other entry, in its order, and the states and the
\* tracker as they were.
C16_RemoveExactlyThat ==
  [][\A id \in Ids :
       RemoveOne(id) =>
         /\ ~lastCall'.threw
         /\ UNCHANGED <<config, currentState, previousState, executingActions,
                        isDestroyed, upd, running, timers>>
         /\ ~HasId(actions, id) => actions' = actions
         /\ HasId(actions, id) =>
              /\ ~HasId(actions', id)
              /\ Len(actions') = Len(actions) - 1
              /\ \A i \in 1 .. Len(actions) :
                   actions[i].id # id =>
                     actions'[IF i < IndexOf(actions, id) THEN i ELSE i - 1]
                       = actions[i]]_vars

\* the first of two registered actions was removed while it was running, an
\* update worked on the remaining one, and then an id that is not registered
\* was removed
C16_Witness ==
  /\ lastCall.op = "removeAction"
  /\ mgmt = 2
  /\ Len(upd) = 2
  /\ Len(upd[1].acts) = 2
  /\ upd[2].acts = <<upd[1].acts[2]>>
  /\ actions = upd[2].acts
  /\ executingActions = {upd[1].acts[1].id}
  /\ \E r \in running : r.uid = 1 /\ r.id = upd[1].acts[1].id

\* C17: destroy() does not throw and leaves no registered action, an empty
\* execution tracker, no state, no configuration (and so no provider map) and
\* the destroyed flag set, whatever the engine was before; called on a
\* destroyed engine that nothing was added to, it changes nothing.
C17_DestroyClearsAll ==
  [][lastCall'.op = "destroy" =>
       /\ ~lastCall'.threw
       /\ actions' = <<>>
       /\ executingActions' = {}
       /\ config' = NoConfig
       /\ currentState' = Null /\ previousState' = Null
       /\ isDestroyed'
       /\ (isDestroyed /\ actions = <<>>) => UNCHANGED engine]_vars

\* destroy() has been called, for the last of the client's calls, on an engine
\* that had started a run of execute which is still in progress
C17_Witness ==
  /\ isDestroyed
  /\ lastCall = [op |-> "destroy", threw |-> FALSE]
  /\ Len(upd) = 1
  /\ \E r \in running : r.uid = 1 /\ r.awaited

\* C18: for an action with both a debounce and a throttle, every triggering
\* update resets the quiet-period timer: the last triggering update holds the
\* pending timer, due debounce after it, and the execute runs debounce after
\* the last triggering update of a burst, with the context of that update.
C18_EveryUpdateResetsTimer ==
  \A u \in Updates : \A e \in Acts(u) :
    (e.debounce > 0 /\ e.throttle > 0 /\ Called(u, e.id)) =>
      /\ (~LaterCall(u, e, LAMBDA d : TRUE) /\ e.id \notin upd[u].started)
           => \E t \in PendingFor(u, e) : t.due = upd[u].timestamp + e.debounce
      /\ e.id \in upd[u].started
           => /\ upd[u].ran[e.id] = upd[u].timestamp + e.debounce
              /\ ~LaterCall(u, e, LAMBDA d : d < e.debounce)

\* C19: for an action with both a debounce and a throttle, two runs of the
\* user's execute are at least throttle apart, whenever the updates are made.
C19_BothSetRunsSpaced ==
  \A u, v \in Updates : \A e \in Acts(u) :
    (/\ e.debounce > 0 /\ e.throttle > 0
     /\ u < v /\ u \in RunsOf(e) /\ v \in RunsOf(e))
      => upd[v].ran[e.id] - upd[u].ran[e.id] >= e.throttle

\* the second update was made at the instant the cooldown of the first ended,
\* after an update that was dropped during the cooldown: the two runs are
\* exactly throttle apart
C19_Witness ==
  /\ Len(upd) = 3
  /\ \E e \in Acts(1) :
    /\ e.debounce > 0 /\ e.throttle > e.debounce
    /\ RunsOf(e) = {1, 3}
    /\ Called(2, e.id)
    /\ upd[3].ran[e.id] - upd[1].ran[e.id] = e.throttle

\* C20: execute is invoked for an update only if, in that update, the trigger
\* of the action was evaluated and returned true and its conditions were
\* evaluated and all returned true; the conditions are evaluated only after the
\* trigger returned true, and the guard stops an action only after its
\* conditions passed.
C20_ExecuteOnlyAfterChecks ==
  \A u \in Updates : \A e \in Acts(u) :
    LET trg == Trigger(e.trigger, upd[u].old, upd[u].new)
        cnd == \A i \in 1 .. Len(e.conditions) :
                 Condition(e.conditions[i], upd[u].new)
    IN  /\ e.id \in upd[u].cond => (e.id \in upd[u].trig /\ trg)
        /\ e.id \in upd[u].blocked => (e.id \in upd[u].cond /\ trg /\ cnd)
        /\ Called(u, e.id) =>
             (e.id \in upd[u].cond /\ trg /\ cnd /\ e.id \notin upd[u].blocked)
        /\ e.id \in upd[u].started => Called(u, e.id)

\* an action with a condition was executed in one update, stopped by the guard
\* in another and skipped in a third, in which its condition returned false
C20_Witness ==
  \E u, v, w \in Updates : \E e \in Acts(u) :
    /\ e.conditions # <<>>
    /\ e \in Acts(v) /\ e \in Acts(w)
    /\ Called(u, e.id) /\ e.id \in upd[u].started
    /\ e.id \in upd[v].blocked
    /\ e.id \in upd[w].cond /\ e.id \notin upd[w].blocked
    /\ ~Called(w, e.id)

\* the snapshot of update u, as a context for the action id
Snapshot(u, id) ==
  [state |-> upd[u].new, providers |-> "P", trigger |-> id,
   timestamp |-> upd[u].timestamp, previousState |-> upd[u].old]

\* C21: the conditions and the user's execute of an action are called with the
\* snapshot of the update that triggered them: state is the newState of that
\* call, previousState the state that was current before it, trigger the id of
\* the action and providers the configured map, whatever later updates did.
C21_ContextIsSnapshot ==
  \A u \in Updates : \A id \in Ids :
    /\ id \in upd[u].cond => upd[u].seen[id] = Snapshot(u, id)
    /\ id \in upd[u].started => upd[u].ctx[id] = Snapshot(u, id)

\* a delayed run has started after a later update had replaced the current
\* state by another one
C21_Witness ==
  \E u, v \in Updates : \E id \in Ids :
    /\ u < v
    /\ id \in upd[u].started
    /\ upd[u].ran[id] > upd[u].timestamp
    /\ upd[u].ran[id] >= upd[v].timestamp
    /\ upd[v].new # upd[u].new
    /\ currentState = upd[v].new
    /\ upd[u].ctx[id].state = upd[u].new

C23_WrappedFailureReported ==
  (config.present /\ config.onError # "none") =>
    \A u \in Updates : \A e \in Acts(u) :
      (Wrapped(e) /\ e.id \in upd[u].failed) => upd[u].errs[e.id] = 1

\* no processAction call is in flight
Quiescent == \A u \in Updates : \A id \in Ids : upd[u].task[id] # "pending"

\* C24: whenever no processAction call is in flight the tracker is empty,
\* whether the executions succeeded, failed or onError threw; and an update
\* made in such a state is not stopped by the guard for any action.
C24_TrackerNeverLeaks ==
  /\ [](Quiescent => executingActions = {})
  /\ [][(Quiescent /\ Len(upd') > Len(upd))
          => upd'[Len(upd')].blocked = {}]_vars

\* a run of an action with preventDefault failed and onError threw; a later
\* update executed the action again, and nothing is in flight any more
C24_Witness ==
  /\ Quiescent
  /\ \E u, v \in Updates : \E e \in Acts(u) :
       /\ u < v /\ e \in Acts(v)
       /\ e.preventDefault
       /\ upd[u].errs[e.id] = 1 /\ upd[u].task[e.id] = "rejected"
       /\ Called(v, e.id) /\ e.id \in upd[v].started

\* C25: after every configure call that did not throw, the current state is
\* the state of the config, the previous state is null and the registered
\* actions are exactly the actions of the config.
C25_ConfigureInitialises ==
  [][(lastCall'.op = "configure" /\ ~lastCall'.threw) =>
       /\ currentState' \in States
       /\ previousState' = Null
       /\ \E list \in LifeLists :
            \E w \in 1 .. MaxWrappers + 1 :
              actions' = addAll([actions |-> <<>>, nextW |-> w], list).actions]_vars

\* C26: once destroy() has returned, no run of a user's execute starts.
C26_NoRunAfterDestroy ==
  [][isDestroyed =>
       \A u \in Updates : upd'[u].started = upd[u].started]_vars

\* C27: once destroy() has returned, onError is not invoked, also when an
\* execute that was in flight fails afterwards; and no promise of updateState
\* is ever rejected.
C27_NoOnErrorAfterDestroy ==
  /\ [][isDestroyed => \A u \in Updates : upd'[u].errs = upd[u].errs]_vars
  /\ [](\A u \in Updates : upd[u].status # "rejected")

\* on a destroyed engine that had been configured with onError, an awaited run
\* has failed after destroy(): onError was not invoked for it and the promise
\* of its updateState is fulfilled
C27_Witness ==
  /\ isDestroyed
  /\ \E u \in Updates : \E id \in Ids :
       /\ id \in upd[u].failed
       /\ upd[u].task[id] = "rejected"
       /\ upd[u].errs[id] = 0
       /\ upd[u].status = "fulfilled"

\* C28: an update processes exactly the actions registered at the moment of
\* the call: the list it works on is the action map before the call, each of
\* these has its trigger evaluated (the old state being truthy) and no other
\* action has, whatever the callbacks add or remove meanwhile.
C28_ProcessesRegisteredAtCall ==
  [][Len(upd') > Len(upd) =>
       LET u == upd'[Len(upd')] IN
         /\ u.acts = actions
         /\ u.trig \subseteq MapIds(actions)
         /\ ~Falsy(u.old) => u.trig = MapIds(actions)]_vars

\* the trigger of the only action of the first update added b, which that
\* update did not evaluate; the second update evaluated and ran b although the
\* trigger called before it had removed b
C28_Witness ==
  /\ Len(upd) >= 2
  /\ Len(upd[1].acts) = 1
  /\ upd[1].trig = {upd[1].acts[1].id}
  /\ Len(upd[2].acts) = 2
  /\ upd[2].acts[1] = upd[1].acts[1]
  /\ upd[2].acts[2].id \in upd[2].trig \cap upd[2].started
  /\ upd[2].acts[2].id \notin upd[1].trig
  /\ actions = upd[1].acts

\* the ids of the registered actions, in registration order
IdsInOrder(acts) == [i \in 1 .. Len(acts) |-> acts[i].id]

\* the update of a step that is an effective updateState call
NewUpdate == upd'[Len(upd')]

\* the step evaluates the triggers and invokes the registered executes of its
\* update in registration order, and no step does so for an earlier update
InvokedInOrder ==
  /\ \A u \in Updates :
       upd'[u].evals = upd[u].evals /\ upd'[u].calls = upd[u].calls
  /\ Len(upd') > Len(upd) =>
       /\ NewUpdate.evals
            = IF Falsy(NewUpdate.old) THEN <<>> ELSE IdsInOrder(actions)
       /\ NewUpdate.calls
            = SelectSeq(IdsInOrder(actions),
                        LAMBDA id : Count(NewUpdate.calls, id) > 0)

\* C29 as stated: within one updateState call the triggers are evaluated and
\* the execute callbacks started in registration order, all of them before the
\* call first yields: the step of the call starts the user's execute of every
\* action it invokes, and no later step starts one for an earlier update.
C29_AllStartedBeforeYield ==
  [][/\ InvokedInOrder
     /\ \A u \in Updates : upd'[u].started = upd[u].started
     /\ Len(upd') > Len(upd) =>
          \A id \in Ids :
            Count(NewUpdate.calls, id) > 0 => id \in NewUpdate.started]_vars

\* C29, amended: the triggers are evaluated and the registered executes
\* invoked in registration order (an id added again keeps its position), all in
\* the step of the call; the user's execute of an action without debounce
\* starts in that step, in this order, and in no later step.
C29_RegistrationOrder ==
  [][/\ InvokedInOrder
     /\ \A u \in Updates : \A e \in Acts(u) :
          e.debounce = 0 =>
            ((e.id \in upd'[u].started) = (e.id \in upd[u].started))
     /\ Len(upd') > Len(upd) =>
          \A e \in Range(actions) :
            (Count(NewUpdate.calls, e.id) > 0 /\ ~Wrapped(e))
              => e.id \in NewUpdate.started]_vars

\* the first of two registered actions was added again with another
\* definition between two updates, and the later update started it before the
\* second action
C29_Witness ==
  \E u \in Updates :
    /\ u + 1 \in Updates
    /\ Len(upd[u].acts) = 2 /\ Len(upd[u + 1].acts) = 2
    /\ upd[u].acts[1] # upd[u + 1].acts[1]
    /\ upd[u].acts[1].id = upd[u + 1].acts[1].id
    /\ upd[u].acts[2] = upd[u + 1].acts[2]
    /\ upd[u + 1].calls = IdsInOrder(upd[u + 1].acts)
    /\ \A id \in MapIds(upd[u + 1].acts) : id \in upd[u + 1].started

\* C30: in the useReactiveAI hook isExecuting is true whenever at least one
\* execute is in flight and false only when none is, also when several
\* executes run concurrently and complete at different times
C30_IsExecutingWhileInFlight == isExecuting <=> running # {}

====
